---- MODULE Spec2Model ----
(***************************************************************************)
(* Model of the authentication code of the Outlook2OneNote add-in:         *)
(*   - PKCEAuthenticator (pkce-auth.js, src/unnamed/part_006 lines 860 ff) *)
(*   - the entry point authenticateAndGetNotebooks of graphapi-auth.js     *)
(*   - AuthService (auth-service.js), the MSAL based service               *)
(*                                                                         *)
(* JavaScript runs one task at a time: an action of this model is the code *)
(* that runs between two points where a function waits for the outside     *)
(* world (fetch, crypto.subtle.digest, a message from the popup, the       *)
(* callback of Office getAccessTokenAsync, a timer).  Awaits of functions   *)
(* that finish without waiting (hasValidToken, canRefreshToken,            *)
(* storeTokens) and the continuation of a promise that has just been       *)
(* settled run as microtasks and belong to the same action.                *)
(***************************************************************************)
EXTENDS Integers, Sequences, FiniteSets, TLC

----------------------------------------------------------------------------
(* Bounds of the model *)

MaxCalls == 1          \* calls of authenticateAndGetNotebooks, one after another
MaxOverlap == 2        \* calls of authenticateAndGetNotebooks under way together
MaxNow == 600000       \* the clock stops here (milliseconds)
MaxRefresh == 1        \* refresh requests made by one call or handler
MaxInflight == 1       \* handler invocations waiting for a response at a time
MaxSvcTokens == 3      \* tokens the identity provider hands to AuthService
MaxEmails == 4         \* emails of an exported conversation
MaxSaves == 2          \* calls of roamingSettings.saveAsync not yet answered
MaxRounds == 3         \* refresh rounds of one getNotebooks call that are counted

(* Program constants *)

bufferTime == 300000   \* 5 * 60 * 1000, hasValidToken

----------------------------------------------------------------------------
(* JavaScript values *)

(* Every JavaScript value of the model is a tuple, so that any two can be   *)
(* compared: a string s is Str(s), a number n is Num(n), an array of        *)
(* notebooks is the sequence of their ids, a string that the code converts  *)
(* (the expiry) is the sequence of its characters                          *)
Str(s) == <<s>>
NULL == <<"null">>     \* null: getItem of a key that is not stored
UNDEF == <<"undef">>   \* undefined: a field missing from a response
NaN == <<"NaN">>       \* the number NaN

(* !!v for the values of the model: null, undefined and the empty string   *)
(* are falsy; an array, also the empty one, is truthy                      *)
Truthy(v) == ~(v = NULL \/ v = UNDEF \/ v = Str(""))

(* A number is NaN or Num(n) for an integer n *)
Num(n) == <<"number", n>>
NumAdd(a, b) == IF a = NaN \/ b = NaN THEN NaN ELSE Num(a[2] + b[2])
NumSub(a, b) == IF a = NaN \/ b = NaN THEN NaN ELSE Num(a[2] - b[2])
NumMul(a, b) == IF a = NaN \/ b = NaN THEN NaN ELSE Num(a[2] * b[2])
NumLess(a, b) == IF a = NaN \/ b = NaN THEN FALSE ELSE a[2] < b[2]
ToNumber(v) == IF v = UNDEF THEN NaN ELSE v

(* Number.prototype.toString: a string is a sequence of characters *)
Digits == <<"0", "1", "2", "3", "4", "5", "6", "7", "8", "9">>

RECURSIVE NatToString(_)
NatToString(n) ==
  IF n < 10 THEN <<Digits[n + 1]>>
  ELSE NatToString(n \div 10) \o <<Digits[(n % 10) + 1]>>

NumToString(n) ==
  IF n = NaN THEN <<"N", "a", "N">>
  ELSE IF n[2] < 0 THEN <<"-">> \o NatToString(0 - n[2])
  ELSE NatToString(n[2])

(* parseInt(s, 10): optional sign, then the longest prefix of digits *)
IsDigit(c) == \E d \in 1..10 : Digits[d] = c
DigitValue(c) == (CHOOSE d \in 1..10 : Digits[d] = c) - 1

RECURSIVE ParseDigits(_, _, _)
ParseDigits(s, i, acc) ==
  IF i > Len(s) \/ ~IsDigit(s[i]) THEN acc
  ELSE ParseDigits(s, i + 1, acc * 10 + DigitValue(s[i]))

parseInt(s) ==
  LET neg == Len(s) > 0 /\ s[1] = "-"
      first == IF neg THEN 2 ELSE 1
  IN IF first > Len(s) \/ ~IsDigit(s[first]) THEN NaN
     ELSE IF neg THEN Num(0 - ParseDigits(s, first, 0))
     ELSE Num(ParseDigits(s, first, 0))

(* sessionStorage.setItem converts the value to a string *)
ToStorageString(v) == IF v = UNDEF THEN Str("undefined") ELSE v

----------------------------------------------------------------------------
(* Session storage of the opener window *)

STORAGE_KEYS ==
  {"ACCESS_TOKEN", "REFRESH_TOKEN", "TOKEN_EXPIRES", "CODE_VERIFIER", "STATE",
   "USER_INFO"}

storeSecurely(st, key, value) == [st EXCEPT ![key] = ToStorageString(value)]
retrieveSecurely(st, key) == st[key]
removeSecurely(st, key) == [st EXCEPT ![key] = NULL]

EmptyStorage == [key \in STORAGE_KEYS |-> NULL]

storeTokens(st, tokens, t) ==
  LET expiresAt == NumAdd(Num(t), NumMul(ToNumber(tokens.expiresIn), Num(1000)))
      s1 == storeSecurely(st, "ACCESS_TOKEN", tokens.accessToken)
      s2 == storeSecurely(s1, "TOKEN_EXPIRES", NumToString(expiresAt))
  IN IF Truthy(tokens.refreshToken)
     THEN storeSecurely(s2, "REFRESH_TOKEN", tokens.refreshToken)
     ELSE s2

cleanupAuthState(st) ==
  removeSecurely(removeSecurely(st, "CODE_VERIFIER"), "STATE")

(* a cleanup that removes the parameters of the login attempt only *)
clearAuthDataKeepTokens(st) ==
  [st EXCEPT !["CODE_VERIFIER"] = NULL, !["STATE"] = NULL]

clearAuthData(st) == [key \in STORAGE_KEYS |-> NULL]

(* a check without the buffer of five minutes *)
hasValidTokenNoBuffer(st, t) ==
  LET accessToken == retrieveSecurely(st, "ACCESS_TOKEN")
      expiresAt == retrieveSecurely(st, "TOKEN_EXPIRES")
  IN IF ~Truthy(accessToken) \/ ~Truthy(expiresAt) \/ expiresAt = <<>>
     THEN FALSE
     ELSE NumLess(Num(t), parseInt(expiresAt))

hasValidToken(st, t) ==
  LET accessToken == retrieveSecurely(st, "ACCESS_TOKEN")
      expiresAt == retrieveSecurely(st, "TOKEN_EXPIRES")
  IN IF ~Truthy(accessToken) \/ ~Truthy(expiresAt) \/ expiresAt = <<>>
     THEN FALSE
     ELSE NumLess(Num(t), NumSub(parseInt(expiresAt), Num(bufferTime)))

canRefreshToken(st) == Truthy(retrieveSecurely(st, "REFRESH_TOKEN"))

----------------------------------------------------------------------------
(* State *)

VARIABLES
  storage,    \* sessionStorage: key -> string or NULL
  now,        \* Date.now()
  office,     \* Office.context.auth.getAccessTokenAsync exists in this host
  nextCall,   \* number of the next call of authenticateAndGetNotebooks
  run,        \* call -> the position of that call and what it did so far
  flow,       \* call -> promise, message listener, interval and popup of its flow
  inv,        \* message-handler invocations waiting for a response
  exchanges,  \* the token-exchange requests sent so far
  svc,        \* AuthService: fields and the requests it made
  probe,      \* the last direct call of a function: its inputs and its result
  export,     \* exportConversationToOneNote: its position, requests and report
  app,        \* appState.selectedNotebook and the roaming settings of the mailbox
  legacy      \* the authenticateAndGetNotebooks of the Office token methods

vars == <<storage, now, office, nextCall, run, flow, inv, exchanges, svc, probe, export, app, legacy>>

Calls == 1..MaxOverlap

(* Values generated per login attempt: random strings, distinct per attempt *)
generateCodeVerifier(k) == <<"verifier", k>>
generateState(k) == <<"state", k>>
generateCodeChallenge(codeVerifier) == <<"S256", codeVerifier>>
validateCodeVerifier(codeVerifier) == Truthy(codeVerifier)

(* The authorization code the identity provider issues for an authorization *)
(* request is bound to the code challenge of that request                   *)
CodeFor(codeChallenge) == <<"code", codeChallenge>>

(* The configuration of the browser build.  A URL is the tuple of its      *)
(* scheme, the rest of its authority part and its path                     *)
AUTH_CONFIG ==
  [clientId |-> "a73f5240-e06c-43a3-8328-1fbd80766263",
   authority |-> <<"https", "login.microsoftonline.com/common">>,
   redirectUri |-> <<"https", "localhost:3000", "/src/auth/callback">>,
   scopes |-> <<"https://graph.microsoft.com/Notes.Read",
                "https://graph.microsoft.com/Notes.ReadWrite",
                "https://graph.microsoft.com/Mail.Read",
                "https://graph.microsoft.com/User.Read">>]

PKCE_CONFIG ==
  [responseType |-> "code", codeChallengeMethod |-> "S256",
   responseMode |-> "query", prompt |-> "select_account"]

ENDPOINTS == [auth |-> AUTH_CONFIG.authority \o <<"/oauth2/v2.0/authorize">>]

(* an authorization URL without the parameters of PKCE *)
buildAuthorizationUrlNoPkce(codeChallenge, state) ==
  [endpoint |-> ENDPOINTS.auth,
   client_id |-> AUTH_CONFIG.clientId,
   response_type |-> PKCE_CONFIG.responseType,
   redirect_uri |-> AUTH_CONFIG.redirectUri,
   scope |-> << >>,
   state |-> state,
   code_challenge |-> NULL,
   code_challenge_method |-> "plain",
   response_mode |-> PKCE_CONFIG.responseMode,
   prompt |-> PKCE_CONFIG.prompt]

(* The URL is the endpoint and the parameters of its query by name; the    *)
(* scopes are joined with a blank between any two of them                  *)
buildAuthorizationUrl(codeChallenge, state) ==
  LET scopes == AUTH_CONFIG.scopes
      join == [i \in 1..(2 * Len(scopes) - 1) |->
                 IF i % 2 = 1 THEN scopes[(i + 1) \div 2] ELSE " "]
  IN [endpoint |-> ENDPOINTS.auth,
      client_id |-> AUTH_CONFIG.clientId,
      response_type |-> PKCE_CONFIG.responseType,
      redirect_uri |-> AUTH_CONFIG.redirectUri,
      scope |-> join,
      state |-> state,
      code_challenge |-> codeChallenge,
      code_challenge_method |-> PKCE_CONFIG.codeChallengeMethod,
      response_mode |-> PKCE_CONFIG.responseMode,
      prompt |-> PKCE_CONFIG.prompt]

(* Notebook lists *)
RealNotebooks == <<"nb1">>
NoNotebooks == << >>
getMockNotebooks == <<"pkce-mock-1", "pkce-mock-2">>
ModernMockNotebooks == <<"modern-mock-1", "modern-mock-2", "modern-mock-3">>

IdleRun ==
  [pc |-> "idle", rt |-> NULL, nref |-> 0, res |-> Str("none"), wres |-> Str("none"),
   hist |-> << >>]
NoFlow ==
  [promise |-> "none", listener |-> FALSE, poller |-> FALSE, popup |-> "none",
   url |-> buildAuthorizationUrl(NULL, NULL), warned |-> FALSE, mismatch |-> FALSE]

Log(rec, e) == [rec EXCEPT !.hist = Append(@, e)]

----------------------------------------------------------------------------
(* graphapi-auth.js authenticateAndGetNotebooks, after the call of         *)
(* pkceAuth.authenticateAndGetNotebooks has returned `notebooks`           *)

(* an entry point that returns whatever PKCE authentication returned *)
WrapperReturnsPkceResult(rec, notebooks) ==
  [rec EXCEPT !.res = notebooks, !.pc = "done", !.wres = notebooks]

WrapperAfterPkce(rec, notebooks) ==
  LET r1 == [rec EXCEPT !.res = notebooks]
  IN IF Truthy(notebooks) /\ Len(notebooks) > 0
     THEN [r1 EXCEPT !.pc = "done", !.wres = notebooks]
     ELSE IF notebooks = NULL
     THEN [r1 EXCEPT !.pc = "done", !.wres = NULL]
     ELSE IF office
     THEN [r1 EXCEPT !.pc = "wSso"]
     ELSE [r1 EXCEPT !.pc = "done", !.wres = ModernMockNotebooks]

(* PKCEAuthenticator.trySSoFallback up to the call of getAccessTokenAsync *)
trySSoFallback(rec) ==
  IF office
  THEN Log([rec EXCEPT !.pc = "sso"], "ssoCall")
  ELSE WrapperAfterPkce(Log(Log(rec, "ssoUnavailable"), "mock"), getMockNotebooks)

(* the catch block of PKCEAuthenticator.authenticateAndGetNotebooks *)
authCatch(rec) == trySSoFallback(Log(rec, "pkceFail"))

(* getNotebooks called from authenticateAndGetNotebooks: up to its fetch *)
RunGetNotebooks(rec, st) ==
  IF Truthy(retrieveSecurely(st, "ACCESS_TOKEN"))
  THEN [rec EXCEPT !.pc = "graph"]
  ELSE authCatch(rec)

(* refreshAccessToken called from a call k: up to its fetch *)
RunRefresh(rec, st) ==
  LET refreshToken == retrieveSecurely(st, "REFRESH_TOKEN")
  IN IF ~Truthy(refreshToken)
     THEN authCatch(rec)
     ELSE Log([rec EXCEPT !.pc = "refresh", !.rt = refreshToken, !.nref = @ + 1],
              "refreshReq")

(* a call that opens the popup whenever the stored token is not valid *)
authenticateInteractiveFirst(rec, st, t) ==
  IF hasValidToken(st, t)
  THEN RunGetNotebooks(Log(rec, "valid"), st)
  ELSE Log([rec EXCEPT !.pc = "challenge"],
           IF canRefreshToken(st) THEN "refreshable" ELSE "fresh")

(* PKCEAuthenticator.authenticateAndGetNotebooks up to its first wait *)
authenticateAndGetNotebooks(rec, st, t) ==
  IF hasValidToken(st, t)
  THEN RunGetNotebooks(Log(rec, "valid"), st)
  ELSE IF canRefreshToken(st)
  THEN RunRefresh(Log(rec, "refreshable"), st)
  ELSE Log([rec EXCEPT !.pc = "challenge"], "fresh")

(* the continuation of authenticateAndGetNotebooks once startPKCEFlow settles *)
RunAfterResolve(rec, notebooks, st) ==
  IF Truthy(notebooks)
  THEN WrapperAfterPkce(Log(rec, "pkceOk"), notebooks)
  ELSE RunGetNotebooks(rec, st)

RunAfterReject(rec) == authCatch(rec)

----------------------------------------------------------------------------
(* Responses of the servers *)

ExpiresInValues == {UNDEF, Num(600)}

TokenResponses(newRefreshToken) ==
  [ok : {TRUE}, error : {UNDEF}, access_token : {Str("AT")},
   refresh_token : {UNDEF, newRefreshToken}, expires_in : ExpiresInValues]
  \cup [ok : {TRUE}, error : {UNDEF}, access_token : {UNDEF},
        refresh_token : {UNDEF}, expires_in : {UNDEF}]
  \cup [ok : {FALSE}, error : {Str("invalid_grant"), Str("other")}, access_token : {UNDEF},
        refresh_token : {UNDEF}, expires_in : {UNDEF}]

GraphResponses ==
  [status : {200}, value : {RealNotebooks, NoNotebooks}]
  \cup [status : {401, 500}, value : {NoNotebooks}]

(* the notebooks getNotebooks returns for a 200 response *)
NotebooksOf(resp) == IF Len(resp.value) > 0 THEN resp.value ELSE NoNotebooks

----------------------------------------------------------------------------
(* AuthService (auth-service.js): Office SSO first, then MSAL *)

SvcToken(n) == <<"token", n>>

SvcInit ==
  [accessToken |-> NULL,      \* this.accessToken
   currentAccount |-> NULL,   \* this.currentAccount
   msalAccounts |-> FALSE,    \* msalInstance.getAllAccounts() is not empty
   op |-> "none",             \* the public method that is running
   pc |-> "idle",             \* where it waits
   issued |-> 0,              \* tokens handed out by Office and MSAL so far
   invalid |-> {},            \* tokens Graph no longer accepts
   inflight |-> NULL,         \* token of the Graph request that is under way
   rejected |-> {},           \* tokens for which callGraphApi has seen a 401
   returned |-> NULL,         \* what the last finished method returned
   trail |-> << >>]           \* what the running or last call of authenticate did

SvcLog(s, e) == [s EXCEPT !.trail = Append(@, e)]

(* authenticateWithMsal up to its first wait: lines 141-173 *)
authenticateWithMsal(s) ==
  LET s0 == SvcLog(s, "msal")
      s1 == IF s0.msalAccounts THEN [s0 EXCEPT !.currentAccount = Str("account")] ELSE s0
  IN IF Truthy(s1.currentAccount)
     THEN [s1 EXCEPT !.pc = "silent"]
     ELSE [s1 EXCEPT !.pc = "popup"]

(* authenticate that goes to MSAL without asking Office *)
authenticateMsalOnly(s) == authenticateWithMsal([s EXCEPT !.trail = << >>])

(* authenticate up to its first wait: tryOfficeSso, lines 72-126 *)
authenticate(s) ==
  LET s1 == SvcLog([s EXCEPT !.trail = << >>], "sso")
  IN IF office THEN [s1 EXCEPT !.pc = "sso"]
     ELSE authenticateWithMsal(SvcLog(s1, "ssoFail"))

(* a method of the service has a token in hand *)
SvcWithToken(s, token) ==
  IF s.op = "callGraphApi"
  THEN [s EXCEPT !.pc = "fetch", !.inflight = token]
  ELSE [s EXCEPT !.pc = "idle", !.op = "none", !.returned = token]

SvcThrow(s) == [s EXCEPT !.pc = "idle", !.op = "none", !.returned = Str("error")]

(* getAccessToken up to its first wait: lines 196-205 *)
getAccessToken(s) ==
  IF Truthy(s.accessToken) THEN SvcWithToken(s, s.accessToken) ELSE authenticate(s)

SvcCall(op) ==
  /\ svc.pc = "idle"
  /\ svc' = IF op = "authenticate" THEN authenticate([svc EXCEPT !.op = op])
            ELSE getAccessToken([svc EXCEPT !.op = op])
  /\ UNCHANGED <<storage, now, office, nextCall, run, flow, inv, exchanges, probe, export, app, legacy>>

(* a token is obtained: authenticate stores it in this.accessToken *)
SvcObtained(s) ==
  SvcWithToken([s EXCEPT !.accessToken = SvcToken(s.issued + 1), !.issued = @ + 1],
               SvcToken(s.issued + 1))

SvcSsoCallback(succeeded) ==
  /\ svc.pc = "sso"
  /\ succeeded => svc.issued < MaxSvcTokens
  /\ svc' = IF succeeded THEN SvcObtained(SvcLog(svc, "ssoOk"))
            ELSE authenticateWithMsal(SvcLog(svc, "ssoFail"))
  /\ UNCHANGED <<storage, now, office, nextCall, run, flow, inv, exchanges, probe, export, app, legacy>>

SvcSilentResult(succeeded) ==
  /\ svc.pc = "silent"
  /\ succeeded => svc.issued < MaxSvcTokens
  /\ svc' = IF succeeded THEN SvcObtained(SvcLog(svc, "msalOk"))
            ELSE [svc EXCEPT !.pc = "popup"]
  /\ UNCHANGED <<storage, now, office, nextCall, run, flow, inv, exchanges, probe, export, app, legacy>>

SvcPopupResult(succeeded) ==
  /\ svc.pc = "popup"
  /\ succeeded => svc.issued < MaxSvcTokens
  /\ svc' = IF succeeded
            THEN SvcObtained([SvcLog(svc, "msalOk") EXCEPT
                                !.currentAccount = Str("account"),
                                !.msalAccounts = TRUE])
            ELSE SvcThrow(SvcLog(SvcLog(svc, "msalFail"), "throw"))
  /\ UNCHANGED <<storage, now, office, nextCall, run, flow, inv, exchanges, probe, export, app, legacy>>

(* Office reports success with an empty token: `if (ssoToken)` at line 79  *)
(* is false and authenticate goes on to MSAL                               *)
SvcSsoEmptyToken ==
  /\ svc.pc = "sso"
  /\ svc' = authenticateWithMsal(SvcLog(svc, "ssoEmpty"))
  /\ UNCHANGED <<storage, now, office, nextCall, run, flow, inv, exchanges, probe, export, app, legacy>>

(* MSAL answers with a result without access token: `if (msalToken)` at    *)
(* line 92 is false, authenticate throws 'All authentication methods       *)
(* failed' (line 102)                                                      *)
SvcMsalEmptyToken ==
  /\ svc.pc \in {"silent", "popup"}
  /\ svc' = SvcThrow(SvcLog(SvcLog(
              [svc EXCEPT !.currentAccount = Str("account"), !.msalAccounts = TRUE],
              "msalEmpty"), "throw"))
  /\ UNCHANGED <<storage, now, office, nextCall, run, flow, inv, exchanges, probe, export, app, legacy>>

(* Graph answers the request of callGraphApi: lines 264-294 *)
SvcGraphResponse ==
  /\ svc.pc = "fetch"
  /\ svc' = IF svc.inflight \in svc.invalid
            THEN [SvcThrow(svc) EXCEPT !.inflight = NULL,
                                       !.rejected = @ \cup {svc.inflight}]
            ELSE [svc EXCEPT !.pc = "idle", !.op = "none", !.inflight = NULL,
                             !.returned = Str("data")]
  /\ UNCHANGED <<storage, now, office, nextCall, run, flow, inv, exchanges, probe, export, app, legacy>>

(* a token expires or is revoked *)
SvcTokenExpires(n) ==
  /\ n \in 1..svc.issued
  /\ SvcToken(n) \notin svc.invalid
  /\ svc' = [svc EXCEPT !.invalid = @ \cup {SvcToken(n)}]
  /\ UNCHANGED <<storage, now, office, nextCall, run, flow, inv, exchanges, probe, export, app, legacy>>

(* signOut: lines 217-230; logoutPopup may throw, then nothing is reset *)
SvcSignOut(logoutOk) ==
  /\ svc.pc = "idle"
  /\ svc' = IF Truthy(svc.currentAccount) /\ ~logoutOk THEN svc
            ELSE [svc EXCEPT !.currentAccount = NULL, !.accessToken = NULL,
                             !.msalAccounts = IF Truthy(svc.currentAccount)
                                              THEN FALSE ELSE @]
  /\ UNCHANGED <<storage, now, office, nextCall, run, flow, inv, exchanges, probe, export, app, legacy>>

SvcNext ==
  \/ \E op \in {"authenticate", "getAccessToken", "callGraphApi"} : SvcCall(op)
  \/ \E succeeded \in BOOLEAN : SvcSsoCallback(succeeded)
  \/ \E succeeded \in BOOLEAN : SvcSilentResult(succeeded)
  \/ \E succeeded \in BOOLEAN : SvcPopupResult(succeeded)
  \/ SvcSsoEmptyToken
  \/ SvcMsalEmptyToken
  \/ SvcGraphResponse
  \/ \E n \in 1..MaxSvcTokens : SvcTokenExpires(n)
  \/ \E logoutOk \in BOOLEAN : SvcSignOut(logoutOk)

----------------------------------------------------------------------------
(* Calls of authenticateAndGetNotebooks *)

(* exportConversationToOneNote has not been called *)
NoExport ==
  [pc |-> "idle", n |-> 0, i |-> 0, attempts |-> << >>, sections |-> 0,
   pageReqs |-> << >>, pages |-> {}, report |-> "none", reported |-> 0,
   thrown |-> FALSE, stage |-> "none", notebook |-> NULL, retrieved |-> 0,
   message |-> "none"]

(* app-state module as loaded: nothing selected, nothing in the roaming   *)
(* settings; want and got record the last selection made and the last     *)
(* answer of getSelectedNotebook                                          *)
NoApp ==
  [selectedNotebook |-> NULL, settings |-> UNDEF, saved |-> UNDEF,
   pending |-> << >>, want |-> UNDEF, got |-> <<"none">>, restarted |-> FALSE]

(* the authenticateAndGetNotebooks of the Office token methods has not     *)
(* been called                                                             *)
NoLegacy ==
  [support |-> [hasOffice |-> FALSE, hasAuth |-> FALSE, hasMailbox |-> FALSE],
   pc |-> "idle", m |-> 0, timer |-> FALSE, tried |-> << >>, outcome |-> << >>,
   abandoned |-> {}, result |-> Str("none")]

NoProbe == [fn |-> "none", st |-> EmptyStorage, t |-> 0, result |-> FALSE]

(* sessionStorage outlives the page: a new page finds what the pages before *)
(* it in the same tab have left.  These are left by a page that, at time 0, *)
(* did nothing; exchanged a code for tokens with or without a refresh       *)
(* token; or stored the parameters of a login attempt that never finished   *)
InitialStorages ==
  {EmptyStorage,
   storeTokens(EmptyStorage,
     [accessToken |-> Str("AT"), refreshToken |-> Str("RT1"),
      expiresIn |-> Num(600)], 0),
   storeTokens(EmptyStorage,
     [accessToken |-> Str("AT"), refreshToken |-> UNDEF,
      expiresIn |-> Num(600)], 0),
   storeSecurely(storeSecurely(EmptyStorage, "CODE_VERIFIER", generateCodeVerifier(0)),
                 "STATE", generateState(0))}

InitPage ==
  /\ now = 0
  /\ nextCall = 1
  /\ run = [k \in Calls |-> IdleRun]
  /\ flow = [k \in Calls |-> NoFlow]
  /\ inv = {}
  /\ exchanges = {}
  /\ svc = SvcInit
  /\ probe = NoProbe
  /\ export = NoExport
  /\ app = NoApp
  /\ legacy = NoLegacy

Init ==
  /\ storage \in InitialStorages
  /\ office \in BOOLEAN
  /\ InitPage

(* a new tab: sessionStorage is empty *)
InitSvc ==
  /\ storage = EmptyStorage
  /\ office \in BOOLEAN
  /\ InitPage

(* a page without Office single sign-on that finds an empty sessionStorage *)
InitOverlap ==
  /\ storage = EmptyStorage
  /\ office = FALSE
  /\ InitPage

(* a call starts: hasValidToken, canRefreshToken, then the first request *)
Start(k) ==
  /\ k = nextCall
  /\ run[k].pc = "idle"
  /\ nextCall' = nextCall + 1
  /\ run' = [run EXCEPT ![k] = authenticateAndGetNotebooks(@, storage, now)]
  /\ UNCHANGED <<storage, now, office, flow, inv, exchanges, svc, probe, export, app, legacy>>

(* a call starts when no other call and no handler is under way *)
StartAlone(k) ==
  /\ k <= MaxCalls
  /\ \A j \in Calls : run[j].pc \in {"idle", "done"}
  /\ inv = {}
  /\ Start(k)

(* a flow that keeps a verifier it finds in the storage *)
storePkceParamsKeepVerifier(st, k) ==
  storeSecurely(IF retrieveSecurely(st, "CODE_VERIFIER") = NULL
                THEN storeSecurely(st, "CODE_VERIFIER", generateCodeVerifier(k))
                ELSE st,
                "STATE", generateState(k))

(* startPKCEFlow after generateCodeChallenge has answered: lines 951-1061 *)
storePkceParams(st, k) ==
  storeSecurely(storeSecurely(st, "CODE_VERIFIER", generateCodeVerifier(k)),
                "STATE", generateState(k))

ChallengeDone(k, digestOk, popupOpens) ==
  /\ run[k].pc = "challenge"
  /\ IF ~digestOk \/ ~validateCodeVerifier(generateCodeVerifier(k))
     THEN /\ run' = [run EXCEPT ![k] = authCatch(@)]
          /\ UNCHANGED <<storage, flow>>
     ELSE /\ storage' = storePkceParams(storage, k)
          /\ IF popupOpens
             THEN /\ flow' = [flow EXCEPT ![k] =
                       [promise |-> "pending", listener |-> TRUE, poller |-> TRUE,
                        popup |-> "open", warned |-> FALSE, mismatch |-> FALSE,
                        url |-> buildAuthorizationUrl(
                                  generateCodeChallenge(generateCodeVerifier(k)),
                                  generateState(k))]]
                  /\ run' = [run EXCEPT ![k] = Log([@ EXCEPT !.pc = "popup"], "popup")]
             ELSE /\ run' = [run EXCEPT ![k] = authCatch(Log(@, "blocked"))]
                  /\ flow' = [flow EXCEPT ![k].url = buildAuthorizationUrl(
                                  generateCodeChallenge(generateCodeVerifier(k)),
                                  generateState(k))]
  /\ UNCHANGED <<now, office, nextCall, inv, exchanges, svc, probe, export, app, legacy>>

(* the response to the fetch of getNotebooks, called from the call itself *)
GraphResponse(k, resp) ==
  /\ run[k].pc = "graph"
  /\ resp.status = 401 => run[k].nref < MaxRefresh
  /\ run' = [run EXCEPT ![k] =
       IF resp.status = 200 THEN WrapperAfterPkce(@, NotebooksOf(resp))
       ELSE IF resp.status = 401 THEN RunRefresh(@, storage)
       ELSE authCatch(@)]
  /\ UNCHANGED <<storage, now, office, nextCall, flow, inv, exchanges, svc, probe, export, app, legacy>>

(* refreshAccessToken after the token endpoint has answered: lines 1295-1325 *)
(* a refresh that keeps the refresh token it was made with *)
RefreshedTokensKeepOld(resp, refreshToken) ==
  [accessToken |-> resp.access_token,
   refreshToken |-> refreshToken,
   expiresIn |-> resp.expires_in]

RefreshedTokens(resp, refreshToken) ==
  [accessToken |-> resp.access_token,
   refreshToken |-> IF Truthy(resp.refresh_token) THEN resp.refresh_token
                    ELSE refreshToken,
   expiresIn |-> resp.expires_in]

(* a refresh that leaves the storage alone whenever it fails *)
RefreshStorageKeepOnError(st, resp, refreshToken, t) ==
  IF resp.ok THEN storeTokens(st, RefreshedTokens(resp, refreshToken), t)
  ELSE st

RefreshStorage(st, resp, refreshToken, t) ==
  IF resp.ok THEN storeTokens(st, RefreshedTokens(resp, refreshToken), t)
  ELSE IF resp.error = Str("invalid_grant") THEN clearAuthData(st)
  ELSE st

RefreshResponse(k, resp) ==
  /\ run[k].pc = "refresh"
  /\ storage' = RefreshStorage(storage, resp, run[k].rt, now)
  /\ run' = [run EXCEPT ![k] =
       IF resp.ok THEN RunGetNotebooks(Log(@, "refreshOk"), storage')
       ELSE authCatch(Log(@, "refreshFail"))]
  /\ UNCHANGED <<now, office, nextCall, flow, inv, exchanges, svc, probe, export, app, legacy>>

(* the callback of Office.context.auth.getAccessTokenAsync in trySSoFallback *)
SsoCallback(k, succeeded) ==
  /\ run[k].pc = "sso"
  /\ run' = [run EXCEPT ![k] =
       IF succeeded
       THEN WrapperAfterPkce(Log(Log(@, "ssoOk"), "mock"), getMockNotebooks)
       ELSE WrapperAfterPkce(Log(Log(@, "ssoFail"), "mock"), getMockNotebooks)]
  /\ UNCHANGED <<storage, now, office, nextCall, flow, inv, exchanges, svc, probe, export, app, legacy>>

(* graphapi-auth.js trySSoAuthentication: the token callback, the 10 second *)
(* timer and the response to makeGraphApiRequest                            *)
WrapperSsoCallback(k, succeeded) ==
  /\ run[k].pc = "wSso"
  /\ run' = [run EXCEPT ![k] =
       IF succeeded THEN [@ EXCEPT !.pc = "wGraph"]
       ELSE [@ EXCEPT !.pc = "done", !.wres = ModernMockNotebooks]]
  /\ UNCHANGED <<storage, now, office, nextCall, flow, inv, exchanges, svc, probe, export, app, legacy>>

WrapperSsoTimeout(k) ==
  /\ run[k].pc = "wSso"
  /\ run' = [run EXCEPT ![k] = [@ EXCEPT !.pc = "done", !.wres = ModernMockNotebooks]]
  /\ UNCHANGED <<storage, now, office, nextCall, flow, inv, exchanges, svc, probe, export, app, legacy>>

WrapperGraphResponse(k, resp) ==
  /\ run[k].pc = "wGraph"
  /\ run' = [run EXCEPT ![k] =
       IF resp.status = 200 /\ Len(NotebooksOf(resp)) > 0
       THEN [@ EXCEPT !.pc = "done", !.wres = NotebooksOf(resp)]
       ELSE [@ EXCEPT !.pc = "done", !.wres = ModernMockNotebooks]]
  /\ UNCHANGED <<storage, now, office, nextCall, flow, inv, exchanges, svc, probe, export, app, legacy>>

----------------------------------------------------------------------------
(* The popup flow: message handler, interval and popup of startPKCEFlow.   *)
(* Each flow of the model has a window of its own.  In the browser the     *)
(* windows of two flows that overlap are one window, named                 *)
(* 'pkce-auth-popup': what that window can post and when it is found       *)
(* closed is among the messages and the closings the model allows          *)

SelfOrigin == "https://localhost:3000"
OtherOrigin == "https://evil.example"
ForgedState == Str("forged-state")

OpenPopups == {j \in Calls : flow[j].popup = "open"}

(* what can be posted to the opener window *)
Messages ==
  {[origin |-> SelfOrigin, type |-> "PKCE_AUTH_CODE",
    code |-> CodeFor(flow[j].url.code_challenge), state |-> flow[j].url.state,
    accessToken |-> UNDEF, notebooks |-> UNDEF] : j \in OpenPopups}
  \cup [origin : {SelfOrigin}, type : {"PKCE_AUTH_CODE"}, code : {Str("forged")},
        state : {UNDEF, NULL, ForgedState}, accessToken : {UNDEF},
        notebooks : {UNDEF}]
  \cup [origin : {SelfOrigin}, type : {"PKCE_AUTH_SUCCESS"}, code : {UNDEF},
        state : {UNDEF}, accessToken : {UNDEF, Str("AT")},
        notebooks : {UNDEF, RealNotebooks}]
  \cup [origin : {SelfOrigin}, type : {"PKCE_AUTH_ERROR", "authCallback"},
        code : {UNDEF}, state : {UNDEF}, accessToken : {UNDEF},
        notebooks : {UNDEF}]
  \cup [origin : {OtherOrigin}, type : {"PKCE_AUTH_CODE"}, code : {Str("forged")},
        state : {generateState(j) : j \in Calls}, accessToken : {UNDEF},
        notebooks : {UNDEF}]
  \cup [origin : {OtherOrigin}, type : {"PKCE_AUTH_SUCCESS"}, code : {UNDEF},
        state : {UNDEF}, accessToken : {Str("AT")}, notebooks : {RealNotebooks}]
  \cup [origin : {OtherOrigin}, type : {"PKCE_AUTH_ERROR"}, code : {UNDEF},
        state : {UNDEF}, accessToken : {UNDEF}, notebooks : {UNDEF}]

(* a handler that does not look at the origin *)
originIgnored(origin) == TRUE
(* line 989 *)
originAllowed(origin) == origin = SelfOrigin
(* a check that lets a message without a state pass *)
stateValidOrMissing(received, stored) == received = stored \/ ~Truthy(received)
(* lines 1000 and 1117 *)
stateValid(received, stored) == received = stored

ExchangeRequest(endpoint, code, verifier, msgState, storedState) ==
  [endpoint |-> endpoint, code |-> code, verifier |-> verifier,
   msgState |-> msgState, storedState |-> storedState]

ClosePopup(f) == [f EXCEPT !.popup = IF @ = "open" THEN "closed" ELSE @]

(* removeEventListener, popup.close() and resolve or reject *)
Settled(f, outcome) ==
  [ClosePopup(f) EXCEPT !.listener = FALSE,
                        !.promise = IF @ = "pending" THEN outcome ELSE @]

HandlerResolve(k, notebooks, st) ==
  /\ flow' = [flow EXCEPT ![k] = Settled(@, "resolved")]
  /\ run' = IF flow[k].promise = "pending"
            THEN [run EXCEPT ![k] = RunAfterResolve(@, notebooks, st)]
            ELSE run

HandlerReject(k) ==
  /\ flow' = [flow EXCEPT ![k] = Settled(@, "rejected")]
  /\ run' = IF flow[k].promise = "pending"
            THEN [run EXCEPT ![k] = RunAfterReject(@)]
            ELSE run

(* messageHandler up to its first wait: lines 986-1048 *)
Deliver(k, m) ==
  /\ flow[k].listener
  /\ IF ~originAllowed(m.origin)
     THEN /\ flow' = [flow EXCEPT ![k].warned = TRUE]
          /\ UNCHANGED <<storage, run, inv, exchanges>>
     ELSE IF m.type = "PKCE_AUTH_CODE"
     THEN LET storedState == retrieveSecurely(storage, "STATE")
              codeVerifier == retrieveSecurely(storage, "CODE_VERIFIER")
          IN IF ~stateValid(m.state, storedState)
             THEN /\ flow' = [flow EXCEPT ![k] =
                                [Settled(@, "rejected") EXCEPT !.mismatch = TRUE]]
                  /\ run' = IF flow[k].promise = "pending"
                            THEN [run EXCEPT ![k] = RunAfterReject(@)]
                            ELSE run
                  /\ UNCHANGED <<storage, inv, exchanges>>
             ELSE IF ~Truthy(codeVerifier)
             THEN /\ HandlerReject(k)
                  /\ UNCHANGED <<storage, inv, exchanges>>
             ELSE /\ Cardinality(inv) < MaxInflight
                  /\ inv' = inv \cup
                       {[k |-> k, code |-> m.code, verifier |-> codeVerifier,
                         state |-> m.state, stored |-> storedState,
                         pc |-> "backend", rt |-> NULL, nref |-> 0]}
                  /\ exchanges' = exchanges \cup
                       {ExchangeRequest("backend", m.code, codeVerifier, m.state,
                                        storedState)}
                  /\ UNCHANGED <<storage, run, flow>>
     ELSE IF m.type = "PKCE_AUTH_SUCCESS"
     THEN /\ storage' = IF Truthy(m.accessToken)
                        THEN storeSecurely(storage, "ACCESS_TOKEN", m.accessToken)
                        ELSE storage
          /\ HandlerResolve(k, m.notebooks, storage')
          /\ UNCHANGED <<inv, exchanges>>
     ELSE IF m.type = "PKCE_AUTH_ERROR"
     THEN /\ HandlerReject(k)
          /\ UNCHANGED <<storage, inv, exchanges>>
     ELSE UNCHANGED <<storage, run, flow, inv, exchanges>>
  /\ UNCHANGED <<now, office, nextCall, svc, probe, export, app, legacy>>

(* the catch of the handler (lines 1023-1028), or for k = 0 the catch of *)
(* handleAuthorizationCallback (lines 1136-1140)                          *)
InvFail(i, st) ==
  /\ inv' = inv \ {i}
  /\ IF i.k = 0
     THEN /\ storage' = cleanupAuthState(st)
          /\ UNCHANGED <<run, flow>>
     ELSE /\ storage' = st
          /\ HandlerReject(i.k)

(* the backend or the token endpoint answers the exchange: lines 1147-1264 *)
InvExchangeResponse(i, resp) ==
  /\ i \in inv
  /\ i.pc \in {"backend", "exchange"}
  /\ IF resp.ok /\ Truthy(resp.access_token)
     THEN /\ storage' =
               LET st == storeTokens(storage,
                           [accessToken |-> resp.access_token,
                            refreshToken |-> resp.refresh_token,
                            expiresIn |-> resp.expires_in], now)
               IN IF i.k = 0 THEN cleanupAuthState(st) ELSE st
          /\ inv' = (inv \ {i}) \cup {[i EXCEPT !.pc = "graph"]}
          /\ UNCHANGED <<run, flow, exchanges>>
     ELSE IF i.pc = "backend"
     THEN /\ inv' = (inv \ {i}) \cup {[i EXCEPT !.pc = "exchange"]}
          /\ exchanges' = exchanges \cup
               {ExchangeRequest("token", i.code, i.verifier, i.state, i.stored)}
          /\ UNCHANGED <<storage, run, flow>>
     ELSE /\ InvFail(i, storage)
          /\ UNCHANGED exchanges
  /\ UNCHANGED <<now, office, nextCall, svc, probe, export, app, legacy>>

(* Graph answers getNotebooks called from the handler: lines 1014-1021 *)
InvGraphResponse(i, resp) ==
  /\ i \in inv
  /\ i.pc = "graph"
  /\ resp.status = 401 => i.nref < MaxRefresh
  /\ IF resp.status = 200
     THEN /\ inv' = inv \ {i}
          /\ IF i.k = 0
             THEN UNCHANGED <<storage, run, flow>>
             ELSE /\ storage' = cleanupAuthState(storage)
                  /\ HandlerResolve(i.k, NotebooksOf(resp), storage')
     ELSE IF resp.status = 401 /\ Truthy(retrieveSecurely(storage, "REFRESH_TOKEN"))
     THEN /\ inv' = (inv \ {i}) \cup
               {[i EXCEPT !.pc = "refresh", !.nref = @ + 1,
                          !.rt = retrieveSecurely(storage, "REFRESH_TOKEN")]}
          /\ UNCHANGED <<storage, run, flow>>
     ELSE InvFail(i, storage)
  /\ UNCHANGED <<now, office, nextCall, exchanges, svc, probe, export, app, legacy>>

InvRefreshResponse(i, resp) ==
  /\ i \in inv
  /\ i.pc = "refresh"
  /\ IF resp.ok
     THEN /\ storage' = RefreshStorage(storage, resp, i.rt, now)
          /\ inv' = (inv \ {i}) \cup {[i EXCEPT !.pc = "graph"]}
          /\ UNCHANGED <<run, flow>>
     ELSE InvFail(i, RefreshStorage(storage, resp, i.rt, now))
  /\ UNCHANGED <<now, office, nextCall, exchanges, svc, probe, export, app, legacy>>

(* handleAuthorizationCallback up to its first wait: lines 1092-1123.  It  *)
(* runs when the window has been navigated to the redirect URI: the page   *)
(* is new, no call and no handler of the page before it is alive, and      *)
(* sessionStorage is what they left                                        *)
UrlParams ==
  {[code |-> CodeFor(flow[j].url.code_challenge), state |-> flow[j].url.state,
    error |-> NULL] : j \in {j \in Calls : flow[j].url.state # NULL}}
  \cup [code : {Str("forged")}, state : {NULL, ForgedState}, error : {NULL}]
  \cup [code : {NULL}, state : {NULL}, error : {Str("access_denied")}]

HandleAuthorizationCallback(params) ==
  LET storedState == retrieveSecurely(storage, "STATE")
      codeVerifier == retrieveSecurely(storage, "CODE_VERIFIER")
  IN /\ \A j \in Calls : run[j].pc \in {"idle", "done"}
     /\ inv = {}
     /\ IF \/ Truthy(params.error)
           \/ ~Truthy(params.code)
           \/ ~Truthy(params.state)
           \/ ~stateValid(params.state, storedState)
           \/ ~Truthy(codeVerifier)
        THEN /\ storage' = cleanupAuthState(storage)
             /\ UNCHANGED <<inv, exchanges>>
        ELSE /\ inv' = inv \cup
                  {[k |-> 0, code |-> params.code, verifier |-> codeVerifier,
                    state |-> params.state, stored |-> storedState,
                    pc |-> "backend", rt |-> NULL, nref |-> 0]}
             /\ exchanges' = exchanges \cup
                  {ExchangeRequest("backend", params.code, codeVerifier,
                                   params.state, storedState)}
             /\ UNCHANGED storage
     /\ UNCHANGED <<now, office, nextCall, run, flow, svc, probe, export, app, legacy>>

(* the user closes the popup window *)
UserClosesPopup(k) ==
  /\ flow[k].popup = "open"
  /\ flow' = [flow EXCEPT ![k].popup = "closed"]
  /\ UNCHANGED <<storage, now, office, nextCall, run, inv, exchanges, svc, probe, export, app, legacy>>

(* the interval checkClosed: lines 1053-1060; it rejects with the error    *)
(* 'Authentication cancelled by user - popup was closed'                   *)
PollClosed(k) ==
  /\ flow[k].poller
  /\ flow[k].popup = "closed"
  /\ flow' = [flow EXCEPT ![k] =
       [@ EXCEPT !.poller = FALSE, !.listener = FALSE,
                 !.promise = IF @ = "pending" THEN "cancelled" ELSE @]]
  /\ run' = IF flow[k].promise = "pending"
            THEN [run EXCEPT ![k] = RunAfterReject(@)]
            ELSE run
  /\ UNCHANGED <<storage, now, office, nextCall, inv, exchanges, svc, probe, export, app, legacy>>

(* time passes: the clock of the model moves in steps of one buffer time,  *)
(* and every request is answered within the step in which it was sent      *)
Tick ==
  /\ \A j \in Calls : run[j].pc \in {"idle", "done"}
  /\ inv = {}
  /\ now + bufferTime <= MaxNow
  /\ now' = now + bufferTime
  /\ UNCHANGED <<storage, office, nextCall, run, flow, inv, exchanges, svc, probe, export, app, legacy>>

Next ==
  \/ \E k \in Calls : StartAlone(k)
  \/ \E k \in Calls, digestOk \in BOOLEAN, popupOpens \in BOOLEAN :
       ChallengeDone(k, digestOk, popupOpens)
  \/ \E k \in Calls, resp \in GraphResponses : GraphResponse(k, resp)
  \/ \E k \in Calls, resp \in TokenResponses(Str("RT2")) : RefreshResponse(k, resp)
  \/ \E k \in Calls, succeeded \in BOOLEAN : SsoCallback(k, succeeded)
  \/ \E k \in Calls, succeeded \in BOOLEAN : WrapperSsoCallback(k, succeeded)
  \/ \E k \in Calls : WrapperSsoTimeout(k)
  \/ \E k \in Calls, resp \in GraphResponses : WrapperGraphResponse(k, resp)
  \/ \E k \in Calls, m \in Messages : Deliver(k, m)
  \/ \E i \in inv, resp \in TokenResponses(Str("RT1")) : InvExchangeResponse(i, resp)
  \/ \E i \in inv, resp \in GraphResponses : InvGraphResponse(i, resp)
  \/ \E i \in inv, resp \in TokenResponses(Str("RT2")) : InvRefreshResponse(i, resp)
  \/ \E params \in UrlParams : HandleAuthorizationCallback(params)
  \/ \E k \in Calls : UserClosesPopup(k)
  \/ \E k \in Calls : PollClosed(k)
  \/ Tick

Spec == Init /\ [][Next]_vars

(* Calls that overlap, on a page without Office single sign-on: the flows  *)
(* of two calls, their message handlers and the requests of the handlers   *)
NextOverlap ==
  \/ \E k \in Calls : Start(k)
  \/ \E k \in Calls, digestOk \in BOOLEAN, popupOpens \in BOOLEAN :
       ChallengeDone(k, digestOk, popupOpens)
  \/ \E k \in Calls, m \in Messages : Deliver(k, m)
  \/ \E i \in inv, resp \in TokenResponses(Str("RT1")) : InvExchangeResponse(i, resp)
  \/ \E i \in inv, resp \in GraphResponses : InvGraphResponse(i, resp)
  \/ \E i \in inv, resp \in TokenResponses(Str("RT2")) : InvRefreshResponse(i, resp)
  \/ \E k \in Calls : UserClosesPopup(k)
  \/ \E k \in Calls : PollClosed(k)

SpecOverlap == InitOverlap /\ [][NextOverlap]_vars

SpecSvc == InitSvc /\ [][SvcNext]_vars

----------------------------------------------------------------------------
(* hasValidToken called directly, on a storage written with storeSecurely  *)
(* as the test "Token Validation Logic" does (test-pkce-auth.js 184-212)   *)

ProbeExpiries == {-1, 0, 300000, 600000, 600001, 900000}

InitValid ==
  /\ storage = EmptyStorage
  /\ office = FALSE
  /\ InitPage

StoreAccessToken ==
  /\ storage' = storeSecurely(storage, "ACCESS_TOKEN", Str("fake_token"))
  /\ UNCHANGED <<now, office, nextCall, run, flow, inv, exchanges, svc, probe, export, app, legacy>>

StoreExpiry(v) ==
  /\ storage' = storeSecurely(storage, "TOKEN_EXPIRES", NumToString(v))
  /\ UNCHANGED <<now, office, nextCall, run, flow, inv, exchanges, svc, probe, export, app, legacy>>

ClearAuthData ==
  /\ storage' = clearAuthData(storage)
  /\ UNCHANGED <<now, office, nextCall, run, flow, inv, exchanges, svc, probe, export, app, legacy>>

CallHasValidToken ==
  /\ probe' = [fn |-> "hasValidToken", st |-> storage, t |-> now,
               result |-> hasValidToken(storage, now)]
  /\ UNCHANGED <<storage, now, office, nextCall, run, flow, inv, exchanges, svc,
                 export, app, legacy>>

NextValid ==
  \/ StoreAccessToken
  \/ \E v \in {Num(n) : n \in ProbeExpiries} \cup {NaN} : StoreExpiry(v)
  \/ ClearAuthData
  \/ CallHasValidToken
  \/ Tick

SpecValid == InitValid /\ [][NextValid]_vars

----------------------------------------------------------------------------
(* What a call has done so far *)

Events(k) == {run[k].hist[i] : i \in DOMAIN run[k].hist}
Happened(k, e) == e \in Events(k)
(* every occurrence of b in the log of call k has an a before it *)
Precedes(k, a, b) ==
  \A i \in DOMAIN run[k].hist :
    run[k].hist[i] = b => \E j \in 1..(i - 1) : run[k].hist[j] = a

----------------------------------------------------------------------------
(* C1: the opener sends a token-exchange request only for a message or a   *)
(* redirect whose state equals the state it has stored; a code message     *)
(* whose state differs from the stored one (also when none is stored)      *)
(* fails the flow: no request is sent, nothing is stored, the listener is  *)
(* removed and the promise of the flow is not resolved by it               *)
C1_StateValidatedBeforeExchange ==
  [][/\ \A e \in exchanges' \ exchanges :
          /\ e.msgState = e.storedState
          /\ e.storedState # NULL
          /\ e.endpoint = "backend" => e.storedState = retrieveSecurely(storage, "STATE")
     /\ \A k \in Calls, m \in Messages :
          (/\ Deliver(k, m)
           /\ m.origin = SelfOrigin
           /\ m.type = "PKCE_AUTH_CODE"
           /\ m.state # retrieveSecurely(storage, "STATE"))
          => /\ exchanges' = exchanges
             /\ inv' = inv
             /\ storage' = storage
             /\ ~flow'[k].listener
             /\ flow[k].promise = "pending" => flow'[k].promise = "rejected"]_vars

(* a flow has been failed by a message whose state did not match, and      *)
(* neither a request was sent nor a token stored                           *)
C1_Witness ==
  \E k \in Calls :
    /\ flow[k].mismatch
    /\ flow[k].promise = "rejected"
    /\ exchanges = {}
    /\ retrieveSecurely(storage, "ACCESS_TOKEN") = NULL
    /\ retrieveSecurely(storage, "STATE") = generateState(k)

----------------------------------------------------------------------------
(* C2: a call that finds no valid access token but a refresh token, and    *)
(* whose silent refresh fails, goes on to the interactive popup flow: it   *)
(* does not finish without having entered startPKCEFlow                    *)
C2_RefreshFailureStartsInteractiveFlow ==
  \A k \in Calls :
    (/\ run[k].pc = "done"
     /\ Len(run[k].hist) > 0
     /\ run[k].hist[1] = "refreshable"
     /\ Happened(k, "refreshFail"))
    => Happened(k, "fresh")

----------------------------------------------------------------------------
(* C3: the single sign-on token API is called only after the PKCE path has *)
(* failed, and mock notebooks are returned only after the single sign-on   *)
(* attempt has failed too                                                  *)
C3_MockOnlyAfterSsoFailed ==
  \A k \in Calls :
    /\ Precedes(k, "pkceFail", "ssoCall")
    /\ Happened(k, "mock")
         => Happened(k, "pkceFail")
            /\ (Happened(k, "ssoFail") \/ Happened(k, "ssoUnavailable"))

----------------------------------------------------------------------------
(* C4: whenever an access token is in the storage, the expiry is there too *)
(* and is a timestamp: the text of a number                                *)
C4_ExpiryStoredWithToken ==
  retrieveSecurely(storage, "ACCESS_TOKEN") # NULL
  => /\ retrieveSecurely(storage, "TOKEN_EXPIRES") # NULL
     /\ parseInt(retrieveSecurely(storage, "TOKEN_EXPIRES")) # NaN

----------------------------------------------------------------------------
(* C5: the verifier of a token-exchange request is the one generated in    *)
(* the login attempt whose challenge the code was issued for, also when    *)
(* two attempts are under way together                                     *)
C5_VerifierOfSameAttempt ==
  \A e \in exchanges : e.code = CodeFor(generateCodeChallenge(e.verifier))

(* the second call has stored its parameters over those of the first,     *)
(* whose popup is still open, and the code of the second was exchanged     *)
C5_Witness ==
  /\ flow[1].popup = "open"
  /\ flow[1].listener
  /\ flow[2].url.state = generateState(2)
  /\ \E e \in exchanges : e.verifier = generateCodeVerifier(2)

----------------------------------------------------------------------------
(* C6: a message whose origin is not the origin of the opener never leads  *)
(* to a token-exchange request, never changes the storage and never       *)
(* settles the flow: listener, popup, promise and the call that waits for  *)
(* the flow stay as they are                                               *)
C6_ForeignOriginIgnored ==
  [][\A k \in Calls, m \in Messages :
       (Deliver(k, m) /\ m.origin # SelfOrigin)
       => /\ exchanges' = exchanges
          /\ inv' = inv
          /\ storage' = storage
          /\ run' = run
          /\ flow'[k].promise = flow[k].promise
          /\ flow'[k].listener = flow[k].listener
          /\ flow'[k].popup = flow[k].popup
          /\ flow'[k].poller = flow[k].poller]_vars

(* the handler has dropped a message of another origin that carried the    *)
(* state of the flow, and the flow still waits                             *)
C6_Witness ==
  \E k \in Calls :
    /\ flow[k].warned
    /\ flow[k].promise = "pending"
    /\ flow[k].listener
    /\ run[k].pc = "popup"
    /\ retrieveSecurely(storage, "STATE") = generateState(k)
    /\ exchanges = {}

----------------------------------------------------------------------------
(* C7: in a call that finds no valid access token but a refresh token, the *)
(* refresh request is made before any popup is opened, and no popup is     *)
(* opened when the refresh succeeds                                        *)
C7_RefreshBeforePopup ==
  \A k \in Calls :
    (Len(run[k].hist) > 0 /\ run[k].hist[1] = "refreshable")
    => /\ run[k].pc # "challenge"
       /\ Precedes(k, "refreshReq", "popup")
       /\ Happened(k, "refreshOk") => ~Happened(k, "popup") /\ flow[k].popup = "none"

(* such a call has refreshed the token and returned the notebooks of the   *)
(* user without a popup                                                    *)
C7_Witness ==
  \E k \in Calls :
    /\ run[k].hist = <<"refreshable", "refreshReq", "refreshOk">>
    /\ run[k].pc = "done"
    /\ run[k].wres = RealNotebooks
    /\ flow[k].popup = "none"

----------------------------------------------------------------------------
(* a token is stored, the stored expiry is the text of a timestamp, and   *)
(* the time t is more than five minutes before it                          *)
FiveMinutes == 5 * 60 * 1000

TokenIsFresh(st, t) ==
  /\ st["ACCESS_TOKEN"] # NULL
  /\ \E n \in ProbeExpiries :
       st["TOKEN_EXPIRES"] = NumToString(Num(n)) /\ t < n - FiveMinutes

----------------------------------------------------------------------------
----------------------------------------------------------------------------
(* C10: once callGraphApi has seen Graph reject a token with 401, neither  *)
(* callGraphApi nor getAccessToken uses that token again: they obtain a    *)
(* new one                                                                 *)
C10_RejectedTokenNotReused ==
  /\ svc.inflight \notin svc.rejected
  /\ svc.returned \notin svc.rejected

----------------------------------------------------------------------------
(* every occurrence of b in the trail of AuthService has one of as before *)
SvcPrecedes(as, b) ==
  \A i \in DOMAIN svc.trail :
    svc.trail[i] = b => \E j \in 1..(i - 1) : svc.trail[j] \in as

(* C11: authenticate of AuthService asks Office single sign-on first; it   *)
(* goes to MSAL only after the single sign-on attempt has failed or given  *)
(* no token, and it throws only after the MSAL attempt has failed too      *)
C11_SsoFirstThenMsal ==
  /\ Len(svc.trail) > 0 => svc.trail[1] = "sso"
  /\ SvcPrecedes({"ssoFail", "ssoEmpty"}, "msal")
  /\ \A i \in DOMAIN svc.trail : svc.trail[i] = "msal" => svc.trail[i - 1] # "ssoOk"
  /\ SvcPrecedes({"msalFail", "msalEmpty"}, "throw")
  /\ SvcPrecedes({"msal"}, "throw")

(* Office has answered with an error, MSAL was tried and failed, and       *)
(* authenticate has thrown                                                 *)
C11_Witness ==
  /\ office
  /\ svc.trail = <<"sso", "ssoFail", "msal", "msalFail", "throw">>
  /\ svc.returned = Str("error")
  /\ svc.pc = "idle"

----------------------------------------------------------------------------
(* exportConversationToOneNote (onenote-service.js 226-430).  Every call   *)
(* of authService.callGraphApi is a wait; it returns the answer of Graph   *)
(* or throws.  Graph creates the section or page of a request exactly when *)
(* it answers the request with success                                     *)

ExportFailed(e, stage) ==
  [e EXCEPT !.pc = "done", !.report = "failed", !.thrown = TRUE, !.stage = stage]

(* lines 420-421: the report after the loop *)
ExportFinish(e) ==
  [e EXCEPT !.pc = "done", !.report = "completed", !.reported = e.n]

(* the head of the loop at line 358 and the request at 401-406 *)
PagesLoop(e, i) ==
  IF i <= e.n
  THEN [e EXCEPT !.pc = "page", !.i = i, !.pageReqs = Append(@, i)]
  ELSE ExportFinish(e)

(* an export that gives up at the first section request that fails *)
AfterSectionNoRetry(e, ok) ==
  LET e1 == [e EXCEPT !.attempts = Append(@, [endpoint |-> e.pc, ok |-> ok])]
  IN IF ok THEN PagesLoop([e1 EXCEPT !.sections = @ + 1], 1)
     ELSE ExportFailed(e1, "section")

(* lines 308-352: after the answer to a section request *)
AfterSection(e, ok) ==
  LET e1 == [e EXCEPT !.attempts = Append(@, [endpoint |-> e.pc, ok |-> ok])]
  IN IF ok THEN PagesLoop([e1 EXCEPT !.sections = @ + 1], 1)
     ELSE IF e.pc = "notebook" THEN [e1 EXCEPT !.pc = "general"]
     ELSE ExportFailed(e1, "section")

(* an export that stops at the first page that fails *)
AfterPageStopOnFailure(e, ok) ==
  IF ok THEN PagesLoop([e EXCEPT !.pages = @ \cup {e.i}], e.i + 1)
  ELSE ExportFailed(e, "page")

(* lines 399-417: after the answer to the page request of email e.i *)
AfterPage(e, ok) ==
  PagesLoop([e EXCEPT !.pages = IF ok THEN @ \cup {e.i} ELSE @], e.i + 1)

(* lines 226-277: up to the request that verifies the notebook; an empty   *)
(* conversation has no earliest email and the read of its subject throws   *)
ExportStart(n) ==
  /\ export.pc \in {"idle", "done"}
  /\ export' = IF n = 0 THEN ExportFailed([NoExport EXCEPT !.n = n], "start")
               ELSE [NoExport EXCEPT !.n = n, !.pc = "verify"]
  /\ UNCHANGED <<storage, now, office, nextCall, run, flow, inv, exchanges, svc, probe, app, legacy>>

(* lines 277-285 *)
ExportVerifyResponse(ok) ==
  /\ export.pc = "verify"
  /\ export' = [export EXCEPT !.pc = IF ok THEN "notebook" ELSE "list"]
  /\ UNCHANGED <<storage, now, office, nextCall, run, flow, inv, exchanges, svc, probe, app, legacy>>

(* lines 286-305: the list of notebooks is read again; the export goes on  *)
(* only if the notebook is found there under another id                    *)
ExportListResponse(outcome) ==
  /\ export.pc = "list"
  /\ export' = IF outcome = "moved" THEN [export EXCEPT !.pc = "notebook"]
               ELSE ExportFailed(export, "verify")
  /\ UNCHANGED <<storage, now, office, nextCall, run, flow, inv, exchanges, svc, probe, app, legacy>>

ExportSectionResponse(ok) ==
  /\ export.pc \in {"notebook", "general"}
  /\ export' = AfterSection(export, ok)
  /\ UNCHANGED <<storage, now, office, nextCall, run, flow, inv, exchanges, svc, probe, app, legacy>>

ExportPageResponse(ok) ==
  /\ export.pc = "page"
  /\ export' = AfterPage(export, ok)
  /\ UNCHANGED <<storage, now, office, nextCall, run, flow, inv, exchanges, svc, probe, app, legacy>>

InitExport ==
  /\ storage = EmptyStorage
  /\ office = FALSE
  /\ InitPage

NextExport ==
  \/ \E n \in 0..MaxEmails : ExportStart(n)
  \/ \E ok \in BOOLEAN : ExportVerifyResponse(ok)
  \/ \E outcome \in {"failed", "moved", "same", "missing"} : ExportListResponse(outcome)
  \/ \E ok \in BOOLEAN : ExportSectionResponse(ok)
  \/ \E ok \in BOOLEAN : ExportPageResponse(ok)

SpecExport == InitExport /\ [][NextExport]_vars

----------------------------------------------------------------------------
(* C12: when the export of a conversation of n emails has reported that it *)
(* is completed, exactly one section and exactly n pages, one for each     *)
(* email, have been created                                                *)
C12_CompletedExportCreatedAllPages ==
  export.report = "completed"
  => /\ export.sections = 1
     /\ export.reported = export.n
     /\ export.pages = 1..export.n

----------------------------------------------------------------------------
(* C13: a page request that fails does not stop the export: once pages are *)
(* being created, a request is made for every email in turn, and the       *)
(* export ends with its report and without throwing                        *)
C13_FailedPageDoesNotStopExport ==
  /\ export.pageReqs = [j \in 1..Len(export.pageReqs) |-> j]
  /\ (export.pc = "done" /\ Len(export.pageReqs) > 0)
       => /\ Len(export.pageReqs) = export.n
          /\ ~export.thrown
          /\ export.report = "completed"
  /\ (export.pc = "page") => Len(export.pageReqs) = export.i

(* the page of the first of three emails was refused, the two others were  *)
(* requested and created, and the export has ended without throwing        *)
C13_Witness ==
  /\ export.pc = "done"
  /\ export.n = MaxEmails
  /\ export.pages = 2..MaxEmails
  /\ Len(export.pageReqs) = MaxEmails
  /\ ~export.thrown

----------------------------------------------------------------------------
(* C16: the section is requested at the endpoint of the notebook first; if *)
(* that fails it is requested at the general endpoint; the export fails at *)
(* this step only when both requests have failed, and a page is requested  *)
(* only after a section has been created                                   *)
C16_SectionRetriedThenPages ==
  LET a == export.attempts
  IN /\ Len(a) <= 2
     /\ Len(a) >= 1 => a[1].endpoint = "notebook"
     /\ Len(a) = 2 => ~a[1].ok /\ a[2].endpoint = "general"
     /\ (Len(a) = 1 /\ ~a[1].ok) => export.pc = "general"
     /\ export.stage = "section" => Len(a) = 2 /\ ~a[1].ok /\ ~a[2].ok
     /\ Len(export.pageReqs) > 0 => export.sections = 1 /\ a[Len(a)].ok

(* the first request has failed, the second has created the section, and   *)
(* the pages are being requested                                           *)
C16_Witness ==
  /\ Len(export.attempts) = 2
  /\ ~export.attempts[1].ok
  /\ export.attempts[2].ok
  /\ export.sections = 1
  /\ export.pc = "page"

----------------------------------------------------------------------------
(* The selected notebook (app-state, src/unnamed/part_005).                *)
(* Office.context.roamingSettings is a copy of the settings of the mailbox *)
(* in the memory of the add-in: set and remove change the copy, saveAsync  *)
(* sends the copy to the mailbox and reports later whether that worked.    *)
(* A restart loses appState and the copy and loads the copy again from the *)
(* mailbox                                                                 *)

AppNotebooks == {<<"notebook", 1>>, <<"notebook", 2>>}

(* lines 15-30: the value returned and the new appState.selectedNotebook *)
getSelectedNotebook(a) ==
  IF Truthy(a.selectedNotebook) THEN a.selectedNotebook
  ELSE IF Truthy(a.settings) THEN a.settings
  ELSE NULL

(* lines 107-112 *)
initializeAppState(a) ==
  IF Truthy(a.settings) THEN [a EXCEPT !.selectedNotebook = a.settings] ELSE a

SetSelectedNotebook(n) ==
  /\ Len(app.pending) < MaxSaves
  /\ app' = [app EXCEPT !.selectedNotebook = n, !.settings = n,
                        !.pending = Append(@, n), !.want = n,
                        !.got = <<"none">>, !.restarted = FALSE]
  /\ UNCHANGED <<storage, now, office, nextCall, run, flow, inv, exchanges, svc, probe, export, legacy>>

ClearSelectedNotebook ==
  /\ Len(app.pending) < MaxSaves
  /\ app' = [app EXCEPT !.selectedNotebook = NULL, !.settings = UNDEF,
                        !.pending = Append(@, UNDEF), !.want = NULL,
                        !.got = <<"none">>, !.restarted = FALSE]
  /\ UNCHANGED <<storage, now, office, nextCall, run, flow, inv, exchanges, svc, probe, export, legacy>>

(* the callback of saveAsync, lines 37-43 and 53-59: a failure is logged *)
SaveAsyncResult(ok) ==
  /\ app.pending # << >>
  /\ app' = [app EXCEPT !.pending = Tail(@),
                        !.saved = IF ok THEN Head(app.pending) ELSE @]
  /\ UNCHANGED <<storage, now, office, nextCall, run, flow, inv, exchanges, svc, probe, export, legacy>>

CallGetSelectedNotebook ==
  /\ app' = [app EXCEPT !.got = getSelectedNotebook(app),
                        !.selectedNotebook = getSelectedNotebook(app)]
  /\ UNCHANGED <<storage, now, office, nextCall, run, flow, inv, exchanges, svc, probe, export, legacy>>

(* the task pane is closed and opened again: what was not saved is lost,   *)
(* and initializeAppState runs on the settings of the mailbox              *)
Restart ==
  /\ app' = initializeAppState(
              [app EXCEPT !.selectedNotebook = NULL, !.settings = app.saved,
                          !.pending = << >>, !.got = <<"none">>,
                          !.restarted = TRUE])
  /\ UNCHANGED <<storage, now, office, nextCall, run, flow, inv, exchanges, svc, probe, export, legacy>>

InitApp ==
  /\ storage = EmptyStorage
  /\ office = TRUE
  /\ InitPage

NextApp ==
  \/ \E n \in AppNotebooks : SetSelectedNotebook(n)
  \/ ClearSelectedNotebook
  \/ \E ok \in BOOLEAN : SaveAsyncResult(ok)
  \/ CallGetSelectedNotebook
  \/ Restart

SpecApp == InitApp /\ [][NextApp]_vars

(* C14: getSelectedNotebook returns the notebook of the last               *)
(* setSelectedNotebook, and null after clearSelectedNotebook, also when    *)
(* the add-in was restarted in between                                     *)
C14_SelectionSurvivesRestart ==
  (app.restarted /\ app.want # UNDEF /\ app.got # <<"none">>) => app.got = app.want

----------------------------------------------------------------------------
(* logout and clearAuthData, called on a page that holds what earlier      *)
(* authentications have stored                                             *)

(* lines 1549-1566: the data is cleared, then the page leaves for the      *)
(* logout endpoint                                                         *)
Logout ==
  /\ storage' = clearAuthData(storage)
  /\ UNCHANGED <<now, office, nextCall, run, flow, inv, exchanges, svc, probe, export, app, legacy>>

(* an authentication stores the tokens of a token response, as             *)
(* handleAuthorizationCallback and refreshAccessToken do                   *)
StoreTokens(resp) ==
  /\ resp.ok
  /\ Truthy(resp.access_token)
  /\ storage' = storeTokens(storage,
                  [accessToken |-> resp.access_token,
                   refreshToken |-> resp.refresh_token,
                   expiresIn |-> resp.expires_in], now)
  /\ UNCHANGED <<now, office, nextCall, run, flow, inv, exchanges, svc, probe, export, app, legacy>>

CallCanRefreshToken ==
  /\ probe' = [fn |-> "canRefreshToken", st |-> storage, t |-> now,
               result |-> canRefreshToken(storage)]
  /\ UNCHANGED <<storage, now, office, nextCall, run, flow, inv, exchanges, svc,
                 export, app, legacy>>

InitLogout ==
  /\ storage \in InitialStorages
  /\ office = FALSE
  /\ InitPage

NextLogout ==
  \/ Logout
  \/ ClearAuthData
  \/ \E resp \in TokenResponses(Str("RT2")) : StoreTokens(resp)
  \/ CallHasValidToken
  \/ CallCanRefreshToken
  \/ Tick

SpecLogout == InitLogout /\ [][NextLogout]_vars

AuthKeys == {"ACCESS_TOKEN", "REFRESH_TOKEN", "TOKEN_EXPIRES", "CODE_VERIFIER", "STATE"}

NothingStored(st) == \A key \in AuthKeys : retrieveSecurely(st, key) = NULL

(* C15: logout and clearAuthData leave no access token, refresh token,     *)
(* expiry, code verifier or state in the storage; from then on             *)
(* hasValidToken and canRefreshToken answer false, and only a step that    *)
(* stores the tokens of an authentication makes either of them answer true *)
C15_LogoutLeavesNothing ==
  [][/\ (Logout \/ ClearAuthData)
          => /\ NothingStored(storage')
             /\ ~hasValidToken(storage', now')
             /\ ~canRefreshToken(storage')
     /\ (/\ NothingStored(storage)
         /\ hasValidToken(storage', now') \/ canRefreshToken(storage'))
          => \E resp \in TokenResponses(Str("RT2")) : StoreTokens(resp)
     /\ (NothingStored(storage) /\ probe'.st = storage /\ probe' # probe)
          => ~probe'.result]_vars

(* hasValidToken answered true on stored tokens, and the storage has been  *)
(* emptied since                                                           *)
C15_Witness ==
  /\ probe.fn = "hasValidToken"
  /\ probe.result
  /\ Truthy(retrieveSecurely(probe.st, "ACCESS_TOKEN"))
  /\ Truthy(retrieveSecurely(probe.st, "REFRESH_TOKEN"))
  /\ NothingStored(storage)

----------------------------------------------------------------------------
(* the scopes named by the scope parameter of a URL *)
ScopesOf(url) == {url.scope[i] : i \in {i \in DOMAIN url.scope : i % 2 = 1}}

(* C17: every authorization URL built for a login attempt targets the      *)
(* https authorize endpoint and carries the client id, response_type code, *)
(* the code challenge of the attempt with method S256, the state of the    *)
(* attempt and the scopes of the configuration                             *)
C17_AuthorizationUrlParameters ==
  \A k \in Calls :
    flow[k].url.state # NULL
    => LET url == flow[k].url
       IN /\ url.endpoint[1] = "https"
          /\ url.endpoint[Len(url.endpoint)] = "/oauth2/v2.0/authorize"
          /\ url.client_id = AUTH_CONFIG.clientId
          /\ url.response_type = "code"
          /\ url.code_challenge = generateCodeChallenge(generateCodeVerifier(k))
          /\ url.code_challenge_method = "S256"
          /\ url.state = generateState(k)
          /\ ScopesOf(url) = {AUTH_CONFIG.scopes[i] : i \in DOMAIN AUTH_CONFIG.scopes}
          /\ ScopesOf(url) # {}

(* two login attempts have each opened their popup with their own URL *)
C17_Witness ==
  /\ flow[1].popup = "open"
  /\ flow[2].popup = "open"
  /\ flow[1].url.code_challenge = generateCodeChallenge(generateCodeVerifier(1))
  /\ flow[2].url.code_challenge = generateCodeChallenge(generateCodeVerifier(2))
  /\ flow[1].url.state # flow[2].url.state

----------------------------------------------------------------------------
(* crypto-utils.js: the code verifier, character by character.  A string   *)
(* is the sequence of its characters, a byte is a number in 0..255         *)

VerifierBytes == 32

B64Alphabet ==
  <<"A", "B", "C", "D", "E", "F", "G", "H", "I", "J", "K", "L", "M", "N",
    "O", "P", "Q", "R", "S", "T", "U", "V", "W", "X", "Y", "Z", "a", "b",
    "c", "d", "e", "f", "g", "h", "i", "j", "k", "l", "m", "n", "o", "p",
    "q", "r", "s", "t", "u", "v", "w", "x", "y", "z", "0", "1", "2", "3",
    "4", "5", "6", "7", "8", "9", "+", "/">>

(* btoa, or Buffer.toString('base64'): three bytes give four characters,   *)
(* and a last group of one or two bytes is padded with "="                 *)
btoa(data) ==
  LET n == Len(data)
      byte(i) == IF i <= n THEN data[i] ELSE 0
      sextet(g, j) ==
        CASE j = 1 -> byte(3 * g - 2) \div 4
          [] j = 2 -> (byte(3 * g - 2) % 4) * 16 + (byte(3 * g - 1) \div 16)
          [] j = 3 -> (byte(3 * g - 1) % 16) * 4 + (byte(3 * g) \div 64)
          [] j = 4 -> byte(3 * g) % 64
      char(g, j) ==
        IF (j = 3 /\ 3 * g - 1 > n) \/ (j = 4 /\ 3 * g > n) THEN "="
        ELSE B64Alphabet[sextet(g, j) + 1]
  IN [p \in 1..(4 * ((n + 2) \div 3)) |-> char(((p - 1) \div 4) + 1, ((p - 1) % 4) + 1)]

IsNotPadding(c) == c # "="

(* an encoding that leaves the padding in place *)
base64urlEncodeKeepPadding(data) ==
  LET base64 == btoa(data)
  IN [i \in DOMAIN base64 |->
        IF base64[i] = "+" THEN "-" ELSE IF base64[i] = "/" THEN "_" ELSE base64[i]]

(* lines 103-121 *)
base64urlEncode(data) ==
  LET base64 == btoa(data)
  IN SelectSeq([i \in DOMAIN base64 |->
                  IF base64[i] = "+" THEN "-"
                  ELSE IF base64[i] = "/" THEN "_" ELSE base64[i]],
               IsNotPadding)

(* lines 160-179: /^[A-Za-z0-9\-._~]+$/ and 43 to 128 characters *)
validChars ==
  {B64Alphabet[i] : i \in 1..62} \cup {"-", ".", "_", "~"}

validateCodeVerifierString(codeVerifier) ==
  /\ codeVerifier # << >>
  /\ ~(Len(codeVerifier) < 43 \/ Len(codeVerifier) > 128)
  /\ \A i \in DOMAIN codeVerifier : codeVerifier[i] \in validChars

(* The values of the random bytes in the model: they give the first and    *)
(* the last characters of the alphabet, "+" and "/" among them, at every   *)
(* position of a group                                                     *)
RandomByteValues == {0, 1, 62, 63, 251, 255}

(* lines 30-51, called once, for the random bytes a, b, c, a, b, c, ... *)
GenerateCodeVerifier(a, b, c) ==
  /\ probe = NoProbe
  /\ LET randomBytes == [i \in 1..VerifierBytes |-> <<a, b, c>>[((i - 1) % 3) + 1]]
         codeVerifier == base64urlEncode(randomBytes)
     IN probe' = [fn |-> "generateCodeVerifier", st |-> randomBytes, t |-> now,
                  result |-> [codeVerifier |-> codeVerifier,
                              valid |-> validateCodeVerifierString(codeVerifier)]]
  /\ UNCHANGED <<storage, now, office, nextCall, run, flow, inv, exchanges, svc,
                 export, app, legacy>>

InitVerifier ==
  /\ storage = EmptyStorage
  /\ office = FALSE
  /\ InitPage

NextVerifier ==
  \E a, b, c \in RandomByteValues : GenerateCodeVerifier(a, b, c)

SpecVerifier == InitVerifier /\ [][NextVerifier]_vars

(* C18: every verifier that generateCodeVerifier returns has 43 to 128     *)
(* characters of the alphabet of RFC 7636, and validateCodeVerifier        *)
(* accepts it                                                              *)
C18_GeneratedVerifierIsValid ==
  probe.fn = "generateCodeVerifier"
  => /\ Len(probe.result.codeVerifier) \in 43..128
     /\ \A i \in DOMAIN probe.result.codeVerifier :
          probe.result.codeVerifier[i] \in validChars
     /\ probe.result.valid

(* a verifier was generated from bytes that encode to "+" and "/" *)
C18_Witness ==
  /\ probe.fn = "generateCodeVerifier"
  /\ probe.st[1] = 251
  /\ probe.st[3] = 63
  /\ probe.result.codeVerifier[1] = "-"
  /\ probe.result.codeVerifier[4] = "_"
  /\ Len(probe.result.codeVerifier) = 43

----------------------------------------------------------------------------
(* C19: when the handler of a code message has exchanged the code and      *)
(* Graph has answered its request for the notebooks with success, the      *)
(* promise of startPKCEFlow is resolved, also when the popup was closed    *)
(* while the handler was waiting; flows that the handler of another        *)
(* message has settled in the meantime are left aside                      *)
C19_SuccessResolvesFlow ==
  [][\A i \in inv :
       (/\ i.k # 0
        /\ flow[i.k].promise \in {"pending", "cancelled"}
        /\ \E resp \in GraphResponses : resp.status = 200 /\ InvGraphResponse(i, resp))
       => flow'[i.k].promise = "resolved"]_vars

----------------------------------------------------------------------------
(* getNotebooks called on its own (part_006 1330-1390).  It calls          *)
(* refreshAccessToken and then itself after every 401; the rounds of a     *)
(* call are counted up to MaxRounds and no further, the code has no count  *)

GetNotebooksDone(rec, result) == [rec EXCEPT !.pc = "done", !.res = result]

(* lines 1330-1346: up to the fetch *)
getNotebooks(rec, st) ==
  IF Truthy(retrieveSecurely(st, "ACCESS_TOKEN"))
  THEN [rec EXCEPT !.pc = "graph"]
  ELSE GetNotebooksDone(rec, Str("error"))

CallGetNotebooks ==
  /\ run[1].pc \in {"idle", "done"}
  /\ run' = [run EXCEPT ![1] = getNotebooks(IdleRun, storage)]
  /\ UNCHANGED <<storage, now, office, nextCall, flow, inv, exchanges, svc, probe, export, app, legacy>>

(* lines 1348-1384, and refreshAccessToken up to its fetch (1269-1293) *)
NotebooksGraphResponse(resp) ==
  /\ run[1].pc = "graph"
  /\ run' = [run EXCEPT ![1] =
       IF resp.status = 200 THEN GetNotebooksDone(@, NotebooksOf(resp))
       ELSE IF resp.status = 401 /\ Truthy(retrieveSecurely(storage, "REFRESH_TOKEN"))
       THEN [@ EXCEPT !.pc = "refresh",
                      !.rt = retrieveSecurely(storage, "REFRESH_TOKEN"),
                      !.nref = IF @ < MaxRounds THEN @ + 1 ELSE @]
       ELSE GetNotebooksDone(@, Str("error"))]
  /\ UNCHANGED <<storage, now, office, nextCall, flow, inv, exchanges, svc, probe, export, app, legacy>>

(* refreshAccessToken after the answer of the token endpoint (1295-1325),  *)
(* then the retry of line 1358                                             *)
NotebooksRefreshResponse(resp) ==
  /\ run[1].pc = "refresh"
  /\ storage' = RefreshStorage(storage, resp, run[1].rt, now)
  /\ run' = [run EXCEPT ![1] =
       IF resp.ok THEN getNotebooks(@, storage')
       ELSE GetNotebooksDone(@, Str("error"))]
  /\ UNCHANGED <<now, office, nextCall, flow, inv, exchanges, svc, probe, export, app, legacy>>

InitNotebooks ==
  /\ storage \in InitialStorages
  /\ office = FALSE
  /\ InitPage

NextNotebooks ==
  \/ CallGetNotebooks
  \/ \E resp \in GraphResponses : NotebooksGraphResponse(resp)
  \/ \E resp \in TokenResponses(Str("RT2")) : NotebooksRefreshResponse(resp)
  \/ Tick

(* every request that fetch has sent is answered *)
SpecNotebooks ==
  /\ InitNotebooks
  /\ [][NextNotebooks]_vars
  /\ WF_vars(\E resp \in GraphResponses : NotebooksGraphResponse(resp))
  /\ WF_vars(\E resp \in TokenResponses(Str("RT2")) : NotebooksRefreshResponse(resp))

(* C20: a call of getNotebooks that waits for Graph ends: it returns or    *)
(* throws after a bounded number of rounds of refresh and retry            *)
C20_GetNotebooksTerminates ==
  (run[1].pc = "graph") ~> (run[1].pc = "done")

----------------------------------------------------------------------------
(* C21: when the PKCE path has failed and the single sign-on API yields a  *)
(* token, the fallback goes on to a Graph request for the notebooks with   *)
(* that token: the call does not finish in the step that receives the      *)
(* token                                                                   *)
C21_SsoTokenUsedForGraphRequest ==
  [][\A k \in Calls :
       (SsoCallback(k, TRUE) \/ WrapperSsoCallback(k, TRUE))
       => run'[k].pc # "done"]_vars

----------------------------------------------------------------------------
(* The page with the steps the browser takes by itself: the interval       *)
(* checkClosed fires every second, and every request that fetch has sent   *)
(* is answered.  What the popup posts and whether the user closes it is    *)
(* left to the popup and the user; startPKCEFlow sets no timer             *)
SpecFair ==
  /\ Init
  /\ [][Next]_vars
  /\ WF_vars(\E k \in Calls : PollClosed(k))
  /\ WF_vars(\E i \in inv, resp \in TokenResponses(Str("RT1")) : InvExchangeResponse(i, resp))
  /\ WF_vars(\E i \in inv, resp \in GraphResponses : InvGraphResponse(i, resp))
  /\ WF_vars(\E i \in inv, resp \in TokenResponses(Str("RT2")) : InvRefreshResponse(i, resp))

(* C22: once the popup is open, the promise of startPKCEFlow settles, also *)
(* when the popup posts nothing and is never closed                        *)
C22_OpenedFlowSettles ==
  \A k \in Calls : (flow[k].promise = "pending") ~> (flow[k].promise # "pending")

----------------------------------------------------------------------------
(* C23: when the login attempt of a call has finished, with or without     *)
(* success, the code verifier and the state stored for that attempt are no *)
(* longer in the storage                                                   *)
C23_FinishedAttemptLeavesNoParams ==
  \A k \in Calls :
    flow[k].promise \in {"resolved", "rejected", "cancelled"}
    => /\ retrieveSecurely(storage, "CODE_VERIFIER") # generateCodeVerifier(k)
       /\ retrieveSecurely(storage, "STATE") # generateState(k)

----------------------------------------------------------------------------
(* C24: an authorization code is submitted for token exchange at most      *)
(* once: no two exchange requests carry the same code                      *)
C24_CodeSubmittedOnce ==
  \A e1, e2 \in exchanges : e1.code = e2.code => e1 = e2

----------------------------------------------------------------------------
(* C25: a refresh that the token endpoint rejects with invalid_grant       *)
(* removes all stored authentication data before it throws, so that        *)
(* canRefreshToken is false afterwards; a refresh that fails with another  *)
(* error leaves the storage as it was                                      *)
C25_FailedRefreshStorage ==
  [][\A resp \in TokenResponses(Str("RT2")) :
       (~resp.ok /\ NotebooksRefreshResponse(resp))
       => /\ run'[1].pc = "done"
          /\ run'[1].res = Str("error")
          /\ IF resp.error = Str("invalid_grant")
             THEN /\ \A key \in STORAGE_KEYS : retrieveSecurely(storage', key) = NULL
                  /\ ~canRefreshToken(storage')
             ELSE storage' = storage]_vars

(* a refresh with a stored refresh token was rejected, the call has thrown *)
(* and the storage is empty                                                *)
C25_Witness ==
  /\ run[1].pc = "done"
  /\ run[1].res = Str("error")
  /\ run[1].nref > 0
  /\ Truthy(run[1].rt)
  /\ storage = EmptyStorage

----------------------------------------------------------------------------
(* C26: after a refresh that succeeded a refresh token is stored: the one  *)
(* the token endpoint returned if it returned one, otherwise the one the   *)
(* request was made with                                                   *)
C26_RefreshKeepsRefreshToken ==
  [][\A resp \in TokenResponses(Str("RT2")) :
       (resp.ok /\ NotebooksRefreshResponse(resp))
       => /\ canRefreshToken(storage')
          /\ retrieveSecurely(storage', "REFRESH_TOKEN") =
               IF Truthy(resp.refresh_token) THEN resp.refresh_token ELSE run[1].rt]_vars

(* a refresh made with one refresh token has stored the new one that the   *)
(* token endpoint returned, and the retry of getNotebooks is under way     *)
C26_Witness ==
  /\ run[1].pc = "graph"
  /\ run[1].nref = 1
  /\ run[1].rt = Str("RT1")
  /\ retrieveSecurely(storage, "REFRESH_TOKEN") = Str("RT2")

----------------------------------------------------------------------------
(* authenticateAndGetNotebooks of the Office token methods                 *)
(* (crypto-utils.js): SSO, REST token, Exchange token, then mock data      *)

LegacyMockNotebooks == <<"mock-notebook-1", "mock-notebook-2", "mock-notebook-3">>

(* the hosts the add-in can be loaded in: Office.js present or not, and    *)
(* which of the token functions Office.context offers                      *)
LegacyHosts == [office : BOOLEAN, auth : BOOLEAN, mailbox : BOOLEAN]

(* lines 260-291: without Office the reads of Office.context throw and     *)
(* the catch leaves hasAuth and hasMailbox false                           *)
checkPlatformSupport(host) ==
  [hasOffice |-> host.office,
   hasAuth |-> host.office /\ host.auth,
   hasMailbox |-> host.office /\ host.mailbox]

(* lines 305-309 *)
authMethods(platformSupport) ==
  <<[name |-> "SSO", available |-> platformSupport.hasAuth],
    [name |-> "REST", available |-> platformSupport.hasMailbox],
    [name |-> "Exchange", available |-> platformSupport.hasMailbox]>>

(* what the backend or the Graph endpoint can answer to a token method *)
LegacyResponses ==
  GraphResponses \cup [status : {200}, value : {<<"nb1", "nb2">>}]

(* the loop that takes the methods in any order it finds them in, wrong:   *)
(* it starts over from the last method                                     *)
RECURSIVE LegacyLoopBackwards(_, _)
LegacyLoopBackwards(l, i) ==
  LET j == 4 - i IN
  IF i > 3
  THEN [l EXCEPT !.pc = "done", !.timer = FALSE, !.result = LegacyMockNotebooks]
  ELSE IF ~authMethods(l.support)[j].available
  THEN LegacyLoopBackwards(l, i + 1)
  ELSE [l EXCEPT !.pc = "token", !.m = i, !.timer = TRUE,
                 !.tried = Append(@, authMethods(l.support)[j].name)]

(* lines 311-339: the for loop from the method at index i on: a method     *)
(* that is not available is skipped, the first available one is called     *)
(* and arms its timer (lines 347, 427, 461); after the last method the     *)
(* mock notebooks are returned                                             *)
RECURSIVE LegacyLoop(_, _)
LegacyLoop(l, i) ==
  IF i > 3
  THEN [l EXCEPT !.pc = "done", !.timer = FALSE, !.result = LegacyMockNotebooks]
  ELSE IF ~authMethods(l.support)[i].available
  THEN LegacyLoop(l, i + 1)
  ELSE [l EXCEPT !.pc = "token", !.m = i, !.timer = TRUE,
                 !.tried = Append(@, authMethods(l.support)[i].name)]

(* lines 294-309 *)
LegacyStart(host) ==
  /\ legacy.pc = "idle"
  /\ LET platformSupport == checkPlatformSupport(host)
         l == [legacy EXCEPT !.support = platformSupport]
     IN legacy' = IF ~platformSupport.hasOffice
                  THEN [l EXCEPT !.pc = "done", !.result = LegacyMockNotebooks]
                  ELSE LegacyLoop(l, 1)
  /\ UNCHANGED <<storage, now, office, nextCall, run, flow, inv, exchanges, svc, probe,
                 export, app>>

(* lines 356-413, 432-447, 466-482: the token callback of the method that  *)
(* is awaited clears the timer; with a token the request is sent, without  *)
(* one the method rejects and the loop goes on                             *)
LegacyTokenCallback(succeeded) ==
  /\ legacy.pc = "token"
  /\ legacy' = IF succeeded
               THEN [legacy EXCEPT !.pc = "request", !.timer = FALSE]
               ELSE LegacyLoop([legacy EXCEPT !.timer = FALSE,
                                              !.outcome = Append(@, Str("failed"))],
                               legacy.m + 1)
  /\ UNCHANGED <<storage, now, office, nextCall, run, flow, inv, exchanges, svc, probe,
                 export, app>>

(* lines 347-350, 427-430, 461-464: the timer of the awaited method fires  *)
(* before its token callback; the method rejects, its callback is still    *)
(* to come                                                                 *)
LegacyTimeout ==
  /\ legacy.pc = "token"
  /\ legacy.timer
  /\ legacy' = LegacyLoop([legacy EXCEPT !.timer = FALSE,
                                         !.abandoned = @ \cup {legacy.m},
                                         !.outcome = Append(@, Str("timeout"))],
                          legacy.m + 1)
  /\ UNCHANGED <<storage, now, office, nextCall, run, flow, inv, exchanges, svc, probe,
                 export, app>>

(* lines 374-405, 438-442, 473-477 with 321-334: the answer to the request *)
(* of the awaited method: a non-empty list is returned, anything else      *)
(* lets the loop go on                                                     *)
LegacyResponse(resp) ==
  /\ legacy.pc = "request"
  /\ legacy' =
       IF resp.status = 200 /\ Len(resp.value) > 0
       THEN [legacy EXCEPT !.pc = "done", !.result = resp.value,
                           !.outcome = Append(@, resp.value)]
       ELSE LegacyLoop([legacy EXCEPT !.outcome =
                          Append(@, IF resp.status = 200 THEN NoNotebooks
                                    ELSE Str("failed"))],
                       legacy.m + 1)
  /\ UNCHANGED <<storage, now, office, nextCall, run, flow, inv, exchanges, svc, probe,
                 export, app>>

(* the token callback of a method that has timed out: its promise is       *)
(* settled, whatever the callback does changes nothing that is awaited     *)
LegacyLateCallback(j) ==
  /\ j \in legacy.abandoned
  /\ legacy' = [legacy EXCEPT !.abandoned = @ \ {j}]
  /\ UNCHANGED <<storage, now, office, nextCall, run, flow, inv, exchanges, svc, probe,
                 export, app>>

InitLegacy ==
  /\ storage = EmptyStorage
  /\ office \in BOOLEAN
  /\ InitPage

NextLegacy ==
  \/ \E host \in LegacyHosts : LegacyStart(host)
  \/ \E succeeded \in BOOLEAN : LegacyTokenCallback(succeeded)
  \/ LegacyTimeout
  \/ \E resp \in LegacyResponses : LegacyResponse(resp)
  \/ \E j \in 1..3 : LegacyLateCallback(j)

SpecLegacy == InitLegacy /\ [][NextLegacy]_vars

(* the names of the methods the platform offers, in the order of the list *)
AvailableNames(platformSupport) ==
  SelectSeq(<<"SSO", "REST", "Exchange">>,
            LAMBDA n : \E i \in 1..3 : /\ authMethods(platformSupport)[i].name = n
                                       /\ authMethods(platformSupport)[i].available)

IsNotebookList(v) == v \in {RealNotebooks, <<"nb1", "nb2">>}

(* C27: the methods are tried in the order SSO, REST token, Exchange       *)
(* token, the methods the platform does not offer being skipped; the       *)
(* first method that yields a non-empty list gives the result and no       *)
(* method is tried after it; when no method yields notebooks, or Office.js *)
(* is absent, the result is the mock notebooks                             *)
C27_MethodsInOrderFirstSuccessWins ==
  /\ [](/\ \E n \in 0..Len(AvailableNames(legacy.support)) :
             legacy.tried = SubSeq(AvailableNames(legacy.support), 1, n)
        /\ \A i \in 1..Len(legacy.outcome) :
             IsNotebookList(legacy.outcome[i])
             => /\ i = Len(legacy.tried)
                /\ legacy.pc = "done"
                /\ legacy.result = legacy.outcome[i]
        /\ (legacy.pc = "done"
            /\ ~\E i \in 1..Len(legacy.outcome) : IsNotebookList(legacy.outcome[i]))
           => /\ legacy.result = LegacyMockNotebooks
              /\ legacy.tried = AvailableNames(legacy.support)
              /\ Len(legacy.outcome) = Len(legacy.tried)
        /\ ~legacy.support.hasOffice /\ legacy.pc # "idle"
           => legacy.tried = << >> /\ legacy.result = LegacyMockNotebooks)
  /\ [][legacy.pc = "done"
        => legacy'.tried = legacy.tried /\ legacy'.result = legacy.result]_vars

(* the SSO method timed out, the REST token method returned notebooks and  *)
(* the Exchange token method, which the platform offers, was not tried     *)
C27_Witness ==
  /\ legacy.pc = "done"
  /\ legacy.support.hasAuth /\ legacy.support.hasMailbox
  /\ legacy.tried = <<"SSO", "REST">>
  /\ legacy.outcome = <<Str("timeout"), RealNotebooks>>
  /\ legacy.result = RealNotebooks

(* the timers of the token methods are timers of the page: one that is     *)
(* armed fires unless it is cleared.  Nothing makes the host call the      *)
(* token callback, or the backend answer the request                       *)
SpecLegacyTimers ==
  /\ InitLegacy
  /\ [][NextLegacy]_vars
  /\ WF_vars(LegacyTimeout)

(* C28: every call of trySSoAuthentication settles, whatever the token     *)
(* callback of the host and the request that follows it do                 *)
C28_SsoAuthenticationSettles ==
  (legacy.m = 1 /\ legacy.pc = "token")
  ~> ~(legacy.m = 1 /\ legacy.pc \in {"token", "request"})

----------------------------------------------------------------------------
(* exportThread, the handler of the Export Thread button                   *)
(* (src/unnamed/part_007), on the selected notebook of app-state and the   *)
(* export of onenote-service.  One export runs at a time                   *)

(* item.conversationId of the email that is open *)
ConversationIds == {Str("conversation-1"), NULL}

(* the handler without the check of the selection, wrong *)
exportThreadNoCheck(selectedNotebook, conversationId) ==
  IF Truthy(conversationId)
  THEN [NoExport EXCEPT !.pc = "conversation", !.notebook = selectedNotebook,
                        !.retrieved = 1]
  ELSE [NoExport EXCEPT !.pc = "single", !.notebook = selectedNotebook]

(* lines 399-436, up to the first await: without a selection the message   *)
(* is shown and the handler returns; with one the conversation is          *)
(* retrieved, or the single email exported when the item has no            *)
(* conversation                                                            *)
exportThread(selectedNotebook, conversationId) ==
  IF ~Truthy(selectedNotebook)
  THEN [NoExport EXCEPT !.pc = "done",
                        !.message = "Please select a notebook first"]
  ELSE IF Truthy(conversationId)
  THEN [NoExport EXCEPT !.pc = "conversation", !.notebook = selectedNotebook,
                        !.retrieved = 1]
  ELSE [NoExport EXCEPT !.pc = "single", !.notebook = selectedNotebook]

(* the click on the button; getSelectedNotebook leaves what it returns in  *)
(* appState                                                                *)
ExportThread(conversationId) ==
  /\ export.pc \in {"idle", "done"}
  /\ export' = exportThread(getSelectedNotebook(app), conversationId)
  /\ app' = [app EXCEPT !.selectedNotebook = getSelectedNotebook(app)]
  /\ UNCHANGED <<storage, now, office, nextCall, run, flow, inv, exchanges, svc, probe,
                 legacy>>

(* lines 426-434 and 439-443: the conversation data arrive, or the         *)
(* retrieval rejects; emails are handed to exportConversationToOneNote     *)
ThreadConversationResponse(ok, n) ==
  /\ export.pc = "conversation"
  /\ export' =
       IF ~ok THEN [export EXCEPT !.pc = "done", !.message = "Error during export"]
       ELSE IF n > 0 THEN [export EXCEPT !.pc = "verify", !.n = n]
       ELSE [export EXCEPT !.pc = "done",
                           !.message = "No conversation data found to export."]
  /\ UNCHANGED <<storage, now, office, nextCall, run, flow, inv, exchanges, svc, probe,
                 app, legacy>>

(* exportSingleEmailToOneNote (onenote-service.js 432-500): the section    *)
(* is created, then the page of the email; a request that fails ends the   *)
(* export                                                                  *)
ThreadSingleResponse(ok) ==
  /\ export.pc \in {"single", "singlePage"}
  /\ export' =
       IF ~ok THEN [export EXCEPT !.pc = "done", !.message = "Error during export"]
       ELSE IF export.pc = "single"
       THEN [export EXCEPT !.pc = "singlePage", !.sections = 1]
       ELSE [export EXCEPT !.pc = "done", !.pages = {1}]
  /\ UNCHANGED <<storage, now, office, nextCall, run, flow, inv, exchanges, svc, probe,
                 app, legacy>>

NextThread ==
  \/ \E n \in AppNotebooks : SetSelectedNotebook(n)
  \/ ClearSelectedNotebook
  \/ \E ok \in BOOLEAN : SaveAsyncResult(ok)
  \/ Restart
  \/ \E conversationId \in ConversationIds : ExportThread(conversationId)
  \/ \E ok \in BOOLEAN, n \in 0..MaxEmails : ThreadConversationResponse(ok, n)
  \/ \E ok \in BOOLEAN : ThreadSingleResponse(ok)
  \/ \E ok \in BOOLEAN : ExportVerifyResponse(ok)
  \/ \E outcome \in {"failed", "moved", "same", "missing"} : ExportListResponse(outcome)
  \/ \E ok \in BOOLEAN : ExportSectionResponse(ok)
  \/ \E ok \in BOOLEAN : ExportPageResponse(ok)

SpecThread == InitApp /\ [][NextThread]_vars

(* the export has retrieved a conversation, asked for a section or a page, *)
(* or is waiting for one of these                                          *)
ExportHasActed ==
  \/ export.pc \notin {"idle", "done"}
  \/ export.retrieved > 0
  \/ export.sections > 0
  \/ export.attempts # << >>
  \/ export.pageReqs # << >>
  \/ export.pages # {}

====
